---- MODULE Spec2Model ----
(***************************************************************************)
(* date-string-fns: ISO8601 date strings (yyyy-mm-dd) and the addDate      *)
(* increment, modelled from src/src/index.ts.                              *)
(*                                                                         *)
(* A JavaScript string is a sequence of one-character strings, so that     *)
(* formatting (buildIsoDateString) and parsing (_toDMY) are computed       *)
(* character by character.  A thrown Error is an outcome whose kind names  *)
(* the error:                                                              *)
(*   MalformedDateString  Error(`Invalid date: ...`)           (_toDMY)    *)
(*   InvalidMonth         Error(`Invalid month number: ...`)               *)
(*   InvalidYear          Error(`Invalid year: ...`)                       *)
(*   NonIntegerDelta      Error('addDate: ... must be an integer value')   *)
(***************************************************************************)
EXTENDS Integers, Sequences, FiniteSets, TLC

VARIABLES op, date, calls, platform, result

vars == <<op, date, calls, platform, result>>

----------------------------------------------------------------------------
(* Bounds of the explored inputs *)

MaxDays == 62
MaxMonths == 25
MaxYears == 3

----------------------------------------------------------------------------
(* Characters and numbers *)

Digits == <<"0", "1", "2", "3", "4", "5", "6", "7", "8", "9">>

\* the regular expression class \d
IsDigit(c) == \E i \in 1..10 : Digits[i] = c

DigitValue(c) == (CHOOSE i \in 1..10 : Digits[i] = c) - 1

\* Number(str) on a string of decimal digits
RECURSIVE Number(_)
Number(str) ==
    IF str = <<>> THEN 0
    ELSE Number(SubSeq(str, 1, Len(str) - 1)) * 10 + DigitValue(str[Len(str)])

RECURSIVE natToString(_)
natToString(n) ==
    IF n < 10 THEN <<Digits[n + 1]>>
    ELSE natToString(n \div 10) \o <<Digits[(n % 10) + 1]>>

\* n.toString() of an integer
toString(n) == IF n < 0 THEN <<"-">> \o natToString(-n) ELSE natToString(n)

\* str.padStart(digits, '0')
padStart(str, digits) ==
    IF Len(str) >= digits THEN str
    ELSE [i \in 1..(digits - Len(str)) |-> "0"] \o str

\* pad without the fill (mutation of pad)
pad_nofill(n, digits) == toString(n)

pad(n, digits) == padStart(toString(n), digits)

\* day and month written in each other's place (mutation of buildIsoDateString)
buildIsoDateString_swapped(day1To31, month1to12, year) ==
    pad(year, 4) \o <<"-">> \o pad(day1To31, 2) \o <<"-">> \o pad(month1to12, 2)

buildIsoDateString(day1To31, month1to12, year) ==
    pad(year, 4) \o <<"-">> \o pad(month1to12, 2) \o <<"-">> \o pad(day1To31, 2)

\* value.match(/^(\d\d\d\d)-(\d\d)-(\d\d)$/) is not null
matchesPattern(value) ==
    /\ Len(value) = 10
    /\ \A i \in {1, 2, 3, 4, 6, 7, 9, 10} : IsDigit(value[i])
    /\ value[5] = "-"
    /\ value[8] = "-"

----------------------------------------------------------------------------
(* Calendar rules *)

minYear == 1
maxYear == 9999

\* every fourth year, the centuries included (mutation of isLeapYear)
isLeapYear_julian(year) == year % 4 = 0

isLeapYear(year) ==
    year % 4 = 0 /\ (year % 100 # 0 \/ year % 400 = 0)

Return(v) == [err |-> "none", val |-> v]
Throw(e) == [err |-> e, val |-> 0]

\* the table of getMaxDayInMonth, indexed from 0
maxDateInMonth1to12(year) ==
    <<0, 31, IF isLeapYear(year) THEN 29 ELSE 28, 31, 30, 31, 30,
      31, 31, 30, 31, 30, 31>>

\* the year is checked before the month (mutation of getMaxDayInMonth)
getMaxDayInMonth_yearFirst(month1to12, year) ==
    IF year < 1 \/ year > 9999 THEN Throw("InvalidYear")
    ELSE IF month1to12 < 1 \/ month1to12 > 12 THEN Throw("InvalidMonth")
    ELSE Return(maxDateInMonth1to12(year)[month1to12 + 1])

getMaxDayInMonth(month1to12, year) ==
    IF month1to12 < 1 \/ month1to12 > 12 THEN Throw("InvalidMonth")
    ELSE IF year < 1 \/ year > 9999 THEN Throw("InvalidYear")
    ELSE Return(maxDateInMonth1to12(year)[month1to12 + 1])

isValidDate(day, month, year) ==
    IF year < minYear \/ year > maxYear THEN FALSE
    ELSE IF month < 1 \/ month > 12 THEN FALSE
    ELSE IF day < 1 \/ day > 31 THEN FALSE
    ELSE day <= getMaxDayInMonth(month, year).val

isValidIsoDateString(value) ==
    IF ~matchesPattern(value) THEN FALSE
    ELSE isValidDate(Number(SubSeq(value, 9, 10)),
                     Number(SubSeq(value, 6, 7)),
                     Number(SubSeq(value, 1, 4)))

----------------------------------------------------------------------------
(* Decomposition *)

_toDMY(d) ==
    IF ~matchesPattern(d)
    THEN [err |-> "MalformedDateString", year |-> 0, month |-> 0, day |-> 0]
    ELSE [err |-> "none",
          year |-> Number(SubSeq(d, 1, 4)),
          month |-> Number(SubSeq(d, 6, 7)),
          day |-> Number(SubSeq(d, 9, 10))]

----------------------------------------------------------------------------
(* Increments: each field of the increment is absent (typeof is not        *)
(* 'number'), a safe integer n, or a number that is not a safe integer     *)
(* (n + 0.5).                                                              *)

Absent == [kind |-> "absent", n |-> 0]
Whole(n) == [kind |-> "int", n |-> n]
Fraction(n) == [kind |-> "nonint", n |-> n]

Inc(y, m, d) == [years |-> y, months |-> m, days |-> d]

\* Math.trunc(a / 12)
truncDiv12(a) == IF a >= 0 THEN a \div 12 ELSE -((-a) \div 12)

\* the month is wrapped and the year is left alone (mutation of checkMonthRollover)
checkMonthRollover_noYear(st) ==
    IF st.month < 1 THEN [st EXCEPT !.month = @ + 12]
    ELSE IF st.month > 12 THEN [st EXCEPT !.month = @ - 12]
    ELSE st

checkMonthRollover(st) ==
    IF st.month < 1 THEN [st EXCEPT !.month = @ + 12, !.year = @ - 1]
    ELSE IF st.month > 12 THEN [st EXCEPT !.month = @ - 12, !.year = @ + 1]
    ELSE st

\* lines 105-110
yearStep(st, increment) ==
    IF st.err # "none" \/ increment.years.kind = "absent" THEN st
    ELSE IF increment.years.kind # "int"
    THEN [st EXCEPT !.err = "NonIntegerDelta"]
    ELSE [st EXCEPT !.year = @ + increment.years.n]

\* lines 112-126
monthStep(st, increment, isLastDayInMonth) ==
    IF st.err # "none" \/ increment.months.kind = "absent" THEN st
    ELSE IF increment.months.kind # "int"
    THEN [st EXCEPT !.err = "NonIntegerDelta"]
    ELSE LET yearsFromMonths == truncDiv12(increment.months.n)
             s1 == checkMonthRollover(
                       [st EXCEPT !.year = @ + yearsFromMonths,
                                  !.month = @ + increment.months.n
                                              - yearsFromMonths * 12])
             mx == getMaxDayInMonth(s1.month, s1.year)
         IN  IF mx.err # "none" THEN [s1 EXCEPT !.err = mx.err]
             ELSE IF isLastDayInMonth THEN [s1 EXCEPT !.day = mx.val]
             ELSE [s1 EXCEPT !.day = IF @ < mx.val THEN @ ELSE mx.val]

\* the month length is read before the month is moved back
\* (mutation of the loop of lines 133-137)
RECURSIVE walkBack_currentMonth(_)
walkBack_currentMonth(st) ==
    IF st.err # "none" \/ ~(st.day < 1) THEN st
    ELSE LET mx == getMaxDayInMonth(st.month, st.year)
             s1 == checkMonthRollover([st EXCEPT !.month = @ - 1])
         IN  IF mx.err # "none" THEN [s1 EXCEPT !.err = mx.err]
             ELSE walkBack_currentMonth([s1 EXCEPT !.day = @ + mx.val])

\* while (day < 1) { ... }, lines 133-137
RECURSIVE walkBack(_)
walkBack(st) ==
    IF st.err # "none" \/ ~(st.day < 1) THEN st
    ELSE LET s1 == checkMonthRollover([st EXCEPT !.month = @ - 1])
             mx == getMaxDayInMonth(s1.month, s1.year)
         IN  IF mx.err # "none" THEN [s1 EXCEPT !.err = mx.err]
             ELSE walkBack([s1 EXCEPT !.day = @ + mx.val])

\* for (;;) { ... }, lines 138-144
RECURSIVE walkForward(_)
walkForward(st) ==
    IF st.err # "none" THEN st
    ELSE LET maxDay == getMaxDayInMonth(st.month, st.year)
         IN  IF maxDay.err # "none" THEN [st EXCEPT !.err = maxDay.err]
             ELSE IF st.day <= maxDay.val THEN st
             ELSE walkForward(checkMonthRollover(
                      [st EXCEPT !.day = @ - maxDay.val, !.month = @ + 1]))

\* lines 128-145
dayStep(st, increment) ==
    IF st.err # "none" \/ increment.days.kind = "absent" THEN st
    ELSE IF increment.days.kind # "int"
    THEN [st EXCEPT !.err = "NonIntegerDelta"]
    ELSE walkForward(walkBack([st EXCEPT !.day = @ + increment.days.n]))

Failed(e) == [kind |-> e, value |-> <<>>]
Returned(str) == [kind |-> "string", value |-> str]

\* isLastDayInMonth is taken after the year step (mutation of addDate)
addDate_lastDayAfterYears(d, increment) ==
    LET p == _toDMY(d)
        first == getMaxDayInMonth(p.month, p.year)
        s1 == yearStep(p, increment)
        shifted == getMaxDayInMonth(s1.month, s1.year)
        s2 == monthStep(s1, increment, p.day = shifted.val)
        s3 == dayStep(s2, increment)
    IN  IF p.err # "none" THEN Failed(p.err)
        ELSE IF first.err # "none" THEN Failed(first.err)
        ELSE IF s3.err # "none" THEN Failed(s3.err)
        ELSE Returned(buildIsoDateString(s3.day, s3.month, s3.year))

addDate(d, increment) ==
    LET p == _toDMY(d)
        first == getMaxDayInMonth(p.month, p.year)
        isLastDayInMonth == p.day = first.val
        s1 == yearStep(p, increment)
        s2 == monthStep(s1, increment, isLastDayInMonth)
        s3 == dayStep(s2, increment)
    IN  IF p.err # "none" THEN Failed(p.err)
        ELSE IF first.err # "none" THEN Failed(first.err)
        ELSE IF s3.err # "none" THEN Failed(s3.err)
        ELSE Returned(buildIsoDateString(s3.day, s3.month, s3.year))

----------------------------------------------------------------------------
(* Platform Date values.  A Date is an instant; its local and its UTC      *)
(* reading are calendar days at most one day apart.  Each reading has the  *)
(* accessors getFullYear, getMonth (0..11), getDate (1..31) and getDay     *)
(* (the day of the week, 0 = Sunday).                                      *)

\* number of days from 0001-01-01 (day 1) in the proleptic Gregorian calendar
GregorianLeap(y) == (y % 4 = 0 /\ y % 100 # 0) \/ y % 400 = 0

GregorianMonthLength(m, y) ==
    IF m = 2 THEN (IF GregorianLeap(y) THEN 29 ELSE 28)
    ELSE IF m \in {4, 6, 9, 11} THEN 30 ELSE 31

RECURSIVE DaysBeforeMonth(_, _)
DaysBeforeMonth(m, y) ==
    IF m <= 1 THEN 0
    ELSE DaysBeforeMonth(m - 1, y) + GregorianMonthLength(m - 1, y)

Ordinal(y, m, d) ==
    365 * (y - 1) + ((y - 1) \div 4) - ((y - 1) \div 100) + ((y - 1) \div 400)
      + DaysBeforeMonth(m, y) + d

\* 0001-01-01 is a Monday
Weekday(y, m, d) == Ordinal(y, m, d) % 7

Reading(y, m, d) ==
    [fullYear |-> y, month |-> m - 1, date |-> d, day |-> Weekday(y, m, d)]

ReadingOrdinal(r) == Ordinal(r.fullYear, r.month + 1, r.date)

\* lines 153-155
fromLocalDate(d) ==
    buildIsoDateString(d.local.day, d.local.month + 1, d.local.fullYear)

\* lines 160-166
fromUTCDate(d) ==
    buildIsoDateString(d.utc.day, d.utc.month + 1, d.utc.fullYear)

----------------------------------------------------------------------------
(* Inputs *)

\* the decimal numeral of n in exactly width characters
Numeral(n, width) ==
    [i \in 1..width |-> Digits[((n \div (10 ^ (width - i))) % 10) + 1]]

DateString(y, m, d) ==
    Numeral(y, 4) \o <<"-">> \o Numeral(m, 2) \o <<"-">> \o Numeral(d, 2)

StartYears == {1, 1900, 2000, 2023, 2024, 9999}
StartDays == {1, 2, 14, 15, 27, 28, 29, 30, 31}

CalendarDays ==
    {t \in StartYears \X (1..12) \X StartDays :
        t[3] <= GregorianMonthLength(t[2], t[1])}

ValidDateStrings == {DateString(t[1], t[2], t[3]) : t \in CalendarDays}

\* strings that match the pattern and are no calendar date, and strings
\* that do not match the pattern
OtherStrings ==
    { DateString(2023, 13, 1), DateString(0, 1, 1), DateString(0, 13, 1),
      DateString(2023, 0, 10), DateString(2023, 2, 30), DateString(2023, 1, 0),
      DateString(2023, 4, 31),
      <<>>,
      <<"2", "0", "2", "3", "-", "2", "-", "1", "4">>,
      <<"2", "0", "2", "3", "0", "2", "1", "4">>,
      <<"2", "0", "2", "3", "/", "0", "2", "/", "1", "4">>,
      <<"2", "0", "2", "3", "-", "0", "2", "-", "1", "4", " ">>,
      <<"2", "0", "2", "3", "-", "0", "2", "-", "1", "x">>,
      <<"1", "4", "-", "0", "2", "-", "2", "0", "2", "3">> }

InputStrings == ValidDateStrings \cup OtherStrings

DayValues == (-MaxDays..MaxDays) \cup {-800, -366, -365, -86, 365, 366, 800}
MonthValues == -MaxMonths..MaxMonths
YearValues == -MaxYears..MaxYears

MixedYears == {Absent, Whole(-1), Whole(0), Whole(1), Whole(3)}
MixedMonths == {Absent, Whole(-13), Whole(-1), Whole(0), Whole(2), Whole(12)}
MixedDays == {Absent, Whole(-31), Whole(0), Whole(1), Whole(30)}

FractionalIncrements ==
    { Inc(Fraction(1), Absent, Absent), Inc(Absent, Fraction(1), Absent),
      Inc(Absent, Absent, Fraction(-1)), Inc(Whole(1), Fraction(0), Whole(1)),
      Inc(Whole(1), Whole(1), Fraction(0)),
      Inc(Absent, Whole(120000), Fraction(0)),
      Inc(Fraction(0), Fraction(0), Fraction(0)) }

Increments ==
    {Inc(Absent, Absent, Whole(n)) : n \in DayValues}
      \cup {Inc(Absent, Whole(n), Absent) : n \in MonthValues}
      \cup {Inc(Whole(n), Absent, Absent) : n \in YearValues}
      \cup {Inc(y, m, d) : y \in MixedYears, m \in MixedMonths, d \in MixedDays}
      \cup FractionalIncrements

\* the increments a caller applies to the date a chain of calls has reached:
\* days n and then days -n, or years, then months, then days
FollowUps ==
    IF Len(calls) = 1 /\ calls[1].years.kind = "absent"
         /\ calls[1].months.kind = "absent" /\ calls[1].days.kind = "int"
    THEN {Inc(Absent, Absent, Whole(-calls[1].days.n))}
    ELSE IF Len(calls) = 1 /\ calls[1].years.kind = "int"
              /\ calls[1].months.kind = "absent" /\ calls[1].days.kind = "absent"
              /\ calls[1].years \in MixedYears
    THEN {Inc(Absent, m, Absent) : m \in MixedMonths \ {Absent}}
    ELSE IF Len(calls) = 2 /\ calls[2].months.kind = "int"
              /\ calls[2].days.kind = "absent"
    THEN {Inc(Absent, Absent, d) : d \in MixedDays \ {Absent}}
    ELSE {}

PlatformDays == {2013, 2024} \X {1, 2, 5, 12} \X {1, 5, 14, 28, 31}

Readings ==
    {Reading(t[1], t[2], t[3]) :
        t \in {u \in PlatformDays : u[3] <= GregorianMonthLength(u[2], u[1])}}

Dates ==
    {[local |-> l, utc |-> u] : l \in Readings, u \in Readings} \cap
    {dt \in [local : Readings, utc : Readings] :
        ReadingOrdinal(dt.local) - ReadingOrdinal(dt.utc) \in {-1, 0, 1}}

NoDate == [local |-> Reading(1, 1, 1), utc |-> Reading(1, 1, 1)]

----------------------------------------------------------------------------
(* The calls *)

Init ==
    /\ op = "none"
    /\ date = <<>>
    /\ calls = <<>>
    /\ platform = NoDate
    /\ result = Failed("none")

\* addDate(s, increment), lines 89-148
AddDate ==
    /\ op = "none"
    /\ \E s \in InputStrings, increment \in Increments :
          /\ date' = s
          /\ calls' = <<increment>>
          /\ result' = addDate(s, increment)
    /\ op' = "addDate"
    /\ UNCHANGED platform

\* addDate applied to the string the previous call returned
AddDateAgain ==
    /\ op = "addDate"
    /\ result.kind = "string"
    /\ \E increment \in FollowUps :
          /\ calls' = Append(calls, increment)
          /\ result' = addDate(result.value, increment)
    /\ UNCHANGED <<op, date, platform>>

FromLocalDate ==
    /\ op = "none"
    /\ \E d \in Dates :
          /\ platform' = d
          /\ result' = Returned(fromLocalDate(d))
    /\ op' = "fromLocalDate"
    /\ UNCHANGED <<date, calls>>

FromUTCDate ==
    /\ op = "none"
    /\ \E d \in Dates :
          /\ platform' = d
          /\ result' = Returned(fromUTCDate(d))
    /\ op' = "fromUTCDate"
    /\ UNCHANGED <<date, calls>>

\* todaysDate(), lines 224-226: new Date() is whatever the clock reads
TodaysDate ==
    /\ op = "none"
    /\ \E now \in Dates :
          /\ platform' = now
          /\ result' = Returned(fromLocalDate(now))
    /\ op' = "todaysDate"
    /\ UNCHANGED <<date, calls>>

Next == AddDate \/ AddDateAgain \/ FromLocalDate \/ FromUTCDate \/ TodaysDate

Spec == Init /\ [][Next]_vars

----------------------------------------------------------------------------
(* Properties *)

\* a single call addDate(date, calls[1]) has returned or thrown
Called == op = "addDate" /\ Len(calls) = 1

IntegerDelta(increment) ==
    /\ increment.years.kind \in {"absent", "int"}
    /\ increment.months.kind \in {"absent", "int"}
    /\ increment.days.kind \in {"absent", "int"}

YearsOnly(increment) ==
    /\ increment.years.kind = "int"
    /\ increment.months.kind = "absent"
    /\ increment.days.kind = "absent"

MonthsOnly(increment) ==
    /\ increment.years.kind = "absent"
    /\ increment.months.kind = "int"
    /\ increment.days.kind = "absent"

DaysOnly(increment) ==
    /\ increment.years.kind = "absent"
    /\ increment.months.kind = "absent"
    /\ increment.days.kind = "int"

\* C1: for a valid date string and an increment of integers, the string
\* addDate returns has a month in 1..12 and a day in
\* 1..getMaxDayInMonth(month, year).  (Stated where the returned year is
\* one getMaxDayInMonth accepts.)
C1_ResultIsCalendarDate ==
    (/\ Called
     /\ isValidIsoDateString(date)
     /\ IntegerDelta(calls[1])
     /\ result.kind = "string"
     /\ matchesPattern(result.value)
     /\ _toDMY(result.value).year \in 1..9999)
    => LET r == _toDMY(result.value)
       IN  /\ r.month \in 1..12
           /\ r.day \in 1..getMaxDayInMonth(r.month, r.year).val

\* the three single-field calls of C2 have been made, and all returned
ThreeCalls ==
    /\ op = "addDate"
    /\ Len(calls) = 3
    /\ isValidIsoDateString(date)
    /\ YearsOnly(calls[1])
    /\ MonthsOnly(calls[2])
    /\ DaysOnly(calls[3])
    /\ result.kind = "string"

OneCall == addDate(date, Inc(calls[1].years, calls[2].months, calls[3].days))

\* C2 (as claimed): one call with years, months and days returns the same
\* string as the three single-field calls made in that order, whenever all
\* the calls return.  (Stated where the year call returns a valid date, so
\* that a violation does not rest on the invalid dates of C1.)
C2_OneCallIsThreeCalls ==
    (/\ ThreeCalls
     /\ OneCall.kind = "string"
     /\ isValidIsoDateString(addDate(date, calls[1]).value))
    => result.value = OneCall.value

\* the day of the start date is the last of its month in the start year
\* exactly when it is the last of that month y years later
SameLastDayStatus ==
    LET p == _toDMY(date)
        y == calls[1].years.n
    IN  (p.day = maxDateInMonth1to12(p.year)[p.month + 1])
          <=> (p.day = maxDateInMonth1to12(p.year + y)[p.month + 1])

\* C2 (amended): one call returns the same string as the three single-field
\* calls whenever all the calls return and the start day is the last day of
\* its month in the start year exactly when it is in the shifted year.
C2_OneCallIsThreeCallsSameLastDay ==
    (ThreeCalls /\ OneCall.kind = "string" /\ SameLastDayStatus)
    => result.value = OneCall.value

C2_Witness ==
    /\ ThreeCalls
    /\ OneCall.kind = "string"
    /\ SameLastDayStatus
    /\ date = DateString(2023, 1, 31)
    /\ calls[1].years.n = 1
    /\ calls[2].months.n = -13
    /\ calls[3].days.n = 30
    /\ result.value = OneCall.value

\* C3: addDate('2023-02-14', {days: 1, months: 2, years: 3}) returns
\* '2026-03-02'.
C3_ReadmeExample ==
    (/\ Called
     /\ date = DateString(2023, 2, 14)
     /\ calls[1] = Inc(Whole(3), Whole(2), Whole(1)))
    => result = Returned(DateString(2026, 3, 2))

SomeFieldNotInteger(increment) ==
    \/ increment.years.kind = "nonint"
    \/ increment.months.kind = "nonint"
    \/ increment.days.kind = "nonint"

\* C4 (as claimed): addDate fails only with MalformedDateString (the string
\* does not match the pattern) or NonIntegerDelta (a present field is not an
\* integer), and returns a string for every string that matches the pattern
\* and every increment of integers.
C4_TwoFailureOutcomes ==
    Called =>
       /\ result.kind \in {"string", "MalformedDateString", "NonIntegerDelta"}
       /\ result.kind = "MalformedDateString" => ~matchesPattern(date)
       /\ result.kind = "NonIntegerDelta" => SomeFieldNotInteger(calls[1])
       /\ (matchesPattern(date) /\ IntegerDelta(calls[1]))
             => result.kind = "string"

\* C4 (amended): addDate fails with MalformedDateString exactly when the
\* string does not match the pattern, with InvalidMonth exactly when the
\* string matches and its month field is outside 1..12, with NonIntegerDelta
\* only when a present field is not a safe integer, and with InvalidYear only
\* when the year field is outside 1..9999 or a months or days field is
\* present.  For a valid date string and an increment of safe integers it
\* returns a string or fails with InvalidYear, and it returns a string when
\* neither months nor days is present.
C4_FourFailureOutcomes ==
    Called =>
       LET p == _toDMY(date)
           increment == calls[1]
       IN  /\ result.kind \in {"string", "MalformedDateString", "NonIntegerDelta",
                               "InvalidMonth", "InvalidYear"}
           /\ result.kind = "MalformedDateString" <=> ~matchesPattern(date)
           /\ result.kind = "InvalidMonth"
                 <=> (matchesPattern(date) /\ p.month \notin 1..12)
           /\ result.kind = "NonIntegerDelta" => SomeFieldNotInteger(increment)
           /\ result.kind = "InvalidYear"
                 => /\ matchesPattern(date)
                    /\ \/ p.year \notin 1..9999
                       \/ increment.months.kind = "int"
                       \/ increment.days.kind = "int"
           /\ (isValidIsoDateString(date) /\ IntegerDelta(increment))
                 => /\ result.kind \in {"string", "InvalidYear"}
                    /\ (increment.months.kind = "absent"
                          /\ increment.days.kind = "absent")
                          => result.kind = "string"

C4_Witness ==
    /\ Called
    /\ date = DateString(9999, 12, 31)
    /\ calls[1] = Inc(Absent, Absent, Whole(1))
    /\ result.kind = "InvalidYear"

\* C5: fromLocalDate(d) and fromUTCDate(d) return the string whose year is
\* d's full year, whose month is d's month plus 1 and whose day is d's day
\* of the month, in the local resp. the UTC reading; todaysDate() is that
\* string of the clock's local reading.
C5_DayOfMonth ==
    LET r == _toDMY(result.value)
        Is(reading) ==
            /\ matchesPattern(result.value)
            /\ r.year = reading.fullYear
            /\ r.month = reading.month + 1
            /\ r.day = reading.date
    IN  /\ op \in {"fromLocalDate", "todaysDate"} => Is(platform.local)
        /\ op = "fromUTCDate" => Is(platform.utc)

\* days n and then days -n have been added to a valid date
ThereAndBack ==
    /\ op = "addDate"
    /\ Len(calls) = 2
    /\ isValidIsoDateString(date)
    /\ DaysOnly(calls[1])
    /\ DaysOnly(calls[2])
    /\ calls[2].days.n = -calls[1].days.n

\* C6: addDate(addDate(s, {days: n}), {days: -n}) = s for a valid s and an
\* integer n whose walk stays within the years 1..9999.
C6_RoundTrip == ThereAndBack => result = Returned(date)

C6_Witness ==
    /\ ThereAndBack
    /\ date = DateString(2024, 3, 1)
    /\ calls[1].days.n = -366
    /\ result = Returned(date)

\* C7: with months present and days absent, the returned day is
\* getMaxDayInMonth of the returned month and year when the start day is
\* getMaxDayInMonth of the start month and start year, and otherwise the
\* smaller of the start day and getMaxDayInMonth of the returned month and
\* year.
C7_MonthStepDay ==
    (/\ Called
     /\ isValidIsoDateString(date)
     /\ calls[1].years.kind \in {"absent", "int"}
     /\ calls[1].months.kind = "int"
     /\ calls[1].days.kind = "absent"
     /\ result.kind = "string")
    => LET p == _toDMY(date)
           r == _toDMY(result.value)
           last == getMaxDayInMonth(r.month, r.year)
       IN  /\ matchesPattern(result.value)
           /\ last.err = "none"
           /\ IF p.day = getMaxDayInMonth(p.month, p.year).val
              THEN r.day = last.val
              ELSE r.day = (IF p.day < last.val THEN p.day ELSE last.val)

C7_Witness ==
    /\ Called
    /\ date = DateString(2023, 2, 28)
    /\ calls[1] = Inc(Whole(1), Whole(12), Absent)
    /\ result = Returned(DateString(2025, 2, 28))

ZeroOrAbsent(field) == field = Absent \/ field = Whole(0)

\* C8: addDate(s, {}) = s, and addDate(s, delta) = s when every present
\* field of delta is 0, for a valid s.
C8_ZeroDelta ==
    (/\ Called
     /\ isValidIsoDateString(date)
     /\ ZeroOrAbsent(calls[1].years)
     /\ ZeroOrAbsent(calls[1].months)
     /\ ZeroOrAbsent(calls[1].days))
    => result = Returned(date)

C8_Witness ==
    /\ Called
    /\ date = DateString(2024, 2, 29)
    /\ calls[1] = Inc(Whole(0), Whole(0), Whole(0))
    /\ result = Returned(date)

\* the month step as the specification words it: floor(months / 12) years
\* are carried, then the month is brought into 1..12 twelve at a time
RECURSIVE NormaliseMonth(_, _)
NormaliseMonth(y, m) ==
    IF m < 1 THEN NormaliseMonth(y - 1, m + 12)
    ELSE IF m > 12 THEN NormaliseMonth(y + 1, m - 12)
    ELSE <<y, m>>

FloorMonthStep(y, m, months) ==
    LET carryYears == months \div 12
    IN  NormaliseMonth(y + carryYears, m + (months - carryYears * 12))

\* C9: addDate(s, {months: m}) has the year and month of the month step that
\* carries floor(m / 12) years: the month is in 1..12 and
\* year * 12 + month = startYear * 12 + startMonth + m.  It returns exactly
\* when that year is in 1..9999.
C9_MonthCarry ==
    (Called /\ isValidIsoDateString(date) /\ MonthsOnly(calls[1]))
    => LET p == _toDMY(date)
           m == calls[1].months.n
           want == FloorMonthStep(p.year, p.month, m)
           r == _toDMY(result.value)
       IN  IF want[1] \in 1..9999
           THEN /\ result.kind = "string"
                /\ matchesPattern(result.value)
                /\ <<r.year, r.month>> = want
                /\ r.month \in 1..12
                /\ r.year * 12 + r.month = p.year * 12 + p.month + m
           ELSE result.kind = "InvalidYear"

C9_Witness ==
    /\ Called
    /\ date = DateString(2023, 1, 31)
    /\ calls[1] = Inc(Absent, Whole(-13), Absent)
    /\ result = Returned(DateString(2021, 12, 31))

LastOrdinal == Ordinal(9999, 12, 31)

\* C10: addDate(s, {days: n}) returns the calendar date n days after s
\* whenever that date lies in the years 1..9999.
C10_DayWalk ==
    (Called /\ isValidIsoDateString(date) /\ DaysOnly(calls[1]))
    => LET p == _toDMY(date)
           n == calls[1].days.n
           target == Ordinal(p.year, p.month, p.day) + n
           r == _toDMY(result.value)
       IN  (target >= 1 /\ target <= LastOrdinal)
           => /\ result.kind = "string"
              /\ matchesPattern(result.value)
              /\ r.year \in 1..9999
              /\ r.month \in 1..12
              /\ r.day \in 1..GregorianMonthLength(r.month, r.year)
              /\ Ordinal(r.year, r.month, r.day) = target

C10_Witness ==
    /\ Called
    /\ date = DateString(2024, 3, 1)
    /\ calls[1] = Inc(Absent, Absent, Whole(-366))
    /\ result = Returned(DateString(2023, 3, 1))

====
